---- MODULE Spec2Model ----
(***************************************************************************)
(* Model of automerge/automerge.go: the run of main over the open pull     *)
(* requests, ProcessPR with parseDiff, processTokenlist and                *)
(* commitTokenDiff, and the final Push.                                    *)
(*                                                                         *)
(* A pull request is what the hosting API and the network hand to the      *)
(* program, so it is environment input.  The parts of it that the code     *)
(* reads at one place only are drawn where the code reads them: the files  *)
(* of the diff when the diff is fetched, the body of a hunk when the loop  *)
(* over d.Hunks reaches it, the Records a hunk decodes to at the decode,   *)
(* the logoURI and the extensions of a Record at its verification, the     *)
(* answer of a remote server when the request is issued.                   *)
(***************************************************************************)
EXTENDS Integers, Sequences, FiniteSets, TLC

VARIABLES
  pc,            \* position of main / ProcessPR / processTokenlist / commitTokenDiff
  tl,            \* m.tl.Tokens, the registry snapshot
  knownAddrs,    \* m.knownAddrs
  knownSymbols,  \* m.knownSymbols
  knownNames,    \* m.knownNames
  outcome,       \* how the submission under review (or the last one) ended
  err,           \* the error reported for the last rejected submission
  assets,        \* the asset paths parseDiff returned
  removed,       \* a hunk scanned for this submission held a remove or modify line
  added,         \* plain, the buffer of the hunk being reconstructed, is not empty
  res,           \* processTokenlist: Records of the hunks processed so far
  tt,            \* processTokenlist: Records decoded from the current hunk
  k,             \* processTokenlist: index into tt of the Record being checked
  lSymbols,      \* processTokenlist: the per-hunk map knownSymbols
  lAddrs,        \* processTokenlist: the per-hunk map knownAddrs
  lNames,        \* processTokenlist: the per-hunk map knownNames
  logoURI,       \* t.LogoURI of the Record being verified
  pending,       \* the verification whose request is in flight
  failed,        \* a request of this submission was answered otherwise than with success
  requested,     \* a network request was issued for the submission under review
  ai,            \* commitTokenDiff: index into assets of the asset being fetched
  oversized,     \* commitTokenDiff: an asset body above the size limit was written
  staged,        \* asset paths written to the worktree and added to the index, not committed
  committed,     \* asset paths in the commit made for the submission under review
  pushes,        \* remote heads pushed to
  hunk,          \* reconstruction of one hunk: the lines of its body
  buf,           \* reconstruction of one hunk: plain, then the string s
  rpc,           \* reconstruction of one hunk: the step it is at
  md,            \* parseDiff on its own: the files of the multi-file diff
  tlDiffAt       \* parseDiff on its own: the index in md of the registry-file diff

\* the run over the pull requests
run == <<pc, tl, knownAddrs, knownSymbols, knownNames, outcome, err, assets,
         removed, added, res, tt, k, lSymbols, lAddrs, lNames, logoURI, pending,
         failed, requested, ai, oversized, staged, committed, pushes>>

\* the reconstruction of one hunk, character by character
recon == <<hunk, buf, rpc>>

\* parseDiff on its own
diffs == <<md, tlDiffAt>>

\* what the run over the pull requests leaves alone
aside == <<recon, diffs>>

vars == <<run, recon, diffs>>

-----------------------------------------------------------------------------
(* Bounds of the model *)

MaxRegistry == 2   \* a submission is fetched only while the snapshot is shorter
MaxRecs == 2       \* Records decoded from one submission
MaxFiles == 2      \* files in one multi-file diff
MaxLines == 2      \* lines in one hunk body

-----------------------------------------------------------------------------
(* Records *)

NoErr == ""

Addrs == {"A1", "A2"}
Syms == {"S1", "S2"}
\* names are sequences of characters
Names == {<<"a">>, <<"b">>}

\* type Token: the three identifying fields; logoURI and extensions are drawn
\* when the Record is verified
Token == [Address : Addrs, Symbol : Syms, Name : Names]

NFieldsShared(t, u) ==
  (IF t.Address = u.Address THEN 1 ELSE 0) + (IF t.Symbol = u.Symbol THEN 1 ELSE 0)
    + (IF t.Name = u.Name THEN 1 ELSE 0)

T0 == [Address |-> "A1", Symbol |-> "S1", Name |-> <<"a">>]
T1 == [Address |-> "A1", Symbol |-> "S2", Name |-> <<"b">>]
T2 == [Address |-> "A2", Symbol |-> "S1", Name |-> <<"b">>]
T3 == [Address |-> "A2", Symbol |-> "S2", Name |-> <<"b">>]

\* the Records the environment submits: T0 and T1 share the address only, T0 and
\* T2 the symbol only, T1 and T2 the name only, T0 and T3 nothing
Tokens == {T0, T1, T2, T3}

SeqsUpTo(S, n) == UNION {[1..m -> S] : m \in 0..n}

Range(s) == {s[i] : i \in DOMAIN s}

AddrsOf(s) == {s[i].Address : i \in DOMAIN s}
SymbolsOf(s) == {s[i].Symbol : i \in DOMAIN s}
NamesOf(s) == {s[i].Name : i \in DOMAIN s}

\* two entries of s share an address, a symbol or a name
HasDuplicate(s) ==
  \E i, j \in DOMAIN s : i < j /\ NFieldsShared(s[i], s[j]) > 0

-----------------------------------------------------------------------------
(* Strings are sequences of characters *)

\* strings.Trim(s, cutset)
RECURSIVE TrimLeft(_, _)
TrimLeft(s, cutset) ==
  IF s # <<>> /\ Head(s) \in cutset THEN TrimLeft(Tail(s), cutset) ELSE s
RECURSIVE TrimRight(_, _)
TrimRight(s, cutset) ==
  IF s # <<>> /\ s[Len(s)] \in cutset
  THEN TrimRight(SubSeq(s, 1, Len(s) - 1), cutset)
  ELSE s
Trim(s, cutset) == TrimRight(TrimLeft(s, cutset), cutset)

\* strings.HasPrefix(s, p), strings.HasSuffix(s, p)
HasPrefix(s, p) == Len(s) >= Len(p) /\ SubSeq(s, 1, Len(p)) = p
HasSuffix(s, p) == Len(s) >= Len(p) /\ SubSeq(s, Len(s) - Len(p) + 1, Len(s)) = p

\* strings.TrimPrefix(s, p), strings.TrimSuffix(s, p)
TrimPrefix(s, p) == IF HasPrefix(s, p) THEN SubSeq(s, Len(p) + 1, Len(s)) ELSE s
TrimSuffix(s, p) == IF HasSuffix(s, p) THEN SubSeq(s, 1, Len(s) - Len(p)) ELSE s

\* strings.Count(s, c) for a one-character c
Count(s, c) == Cardinality({i \in DOMAIN s : s[i] = c})

-----------------------------------------------------------------------------
(* Paths and the files of a diff *)

tokenlistPath == <<"src", "tokens", "solana.tokenlist.json">>

AssetPath(addr) == <<"assets", "mainnet", addr, "logo.png">>

DevNull == <<"/dev/null">>

\* path.Ext of the file names the model uses
Ext(name) ==
  CASE name = "logo.png" -> ".png"
    [] name = "logo.jpg" -> ".jpg"
    [] name = "logo.svg" -> ".svg"
    [] name = "logo.gif" -> ".gif"
    [] name = "solana.tokenlist.json" -> ".json"
    [] OTHER -> ""

\* strings.TrimPrefix(z.NewName, "b/")
TrimPrefixB(name) ==
  IF Len(name) > 1 /\ name[1] = "b" THEN Tail(name) ELSE name

\* the new-side paths the submissions of a run are made of
NewPaths == {tokenlistPath, AssetPath("A1"), AssetPath("A2"), <<"README.md">>}

\* type diff.FileDiff, as far as parseDiff reads it: every path as a new file,
\* and one asset as a modified file
FileDiff ==
  {[NewName |-> <<"b">> \o p, OrigName |-> DevNull] : p \in NewPaths} \cup
  {[NewName |-> <<"b">> \o AssetPath("A1"), OrigName |-> <<"a">> \o AssetPath("A1")]}

MultiFileDiffs == SeqsUpTo(FileDiff, MaxFiles)

RECURSIVE parseDiffFrom(_, _, _, _)
parseDiffFrom(files, i, as, tlDiff) ==
  IF i > Len(files)
  THEN IF tlDiff = 0
       THEN [err |-> "no tokenlist diff found", assets |-> <<>>, tlDiff |-> 0]
       ELSE [err |-> NoErr, assets |-> as, tlDiff |-> tlDiff]
  ELSE LET z == files[i]
           newFile == TrimPrefixB(z.NewName)
       IN  IF Len(newFile) > 1 /\ newFile[1] = "assets"
           THEN IF z.OrigName # DevNull
                THEN [err |-> "found modified asset file", assets |-> <<>>, tlDiff |-> 0]
                ELSE IF Len(newFile) # 4 \/ newFile[2] # "mainnet"
                THEN [err |-> "invalid asset path", assets |-> <<>>, tlDiff |-> 0]
                ELSE IF Ext(newFile[4]) \notin {".png", ".jpg", ".svg"}
                THEN [err |-> "invalid asset extension", assets |-> <<>>, tlDiff |-> 0]
                ELSE parseDiffFrom(files, i + 1, Append(as, newFile), tlDiff)
           ELSE IF newFile = tokenlistPath
           THEN IF tlDiff # 0
                THEN [err |-> "found multiple tokenlist diffs", assets |-> <<>>, tlDiff |-> 0]
                ELSE parseDiffFrom(files, i + 1, as, i)
           ELSE [err |-> "unsupported file modified", assets |-> <<>>, tlDiff |-> 0]

\* a parse that does not look at the old side of a file
parseDiffAnyOrig(files) ==
  parseDiffFrom([i \in DOMAIN files |-> [files[i] EXCEPT !.OrigName = DevNull]],
                1, <<>>, 0)

\* Automerger.parseDiff: the asset paths in diff order and the index of the
\* registry-file diff, or an error
parseDiff(files) == parseDiffFrom(files, 1, <<>>, 0)

-----------------------------------------------------------------------------
(* Hunk bodies *)

\* a line longer than the scanner's buffer, whatever it begins with
TooLong == <<"...">>

\* the lines of the hunks of a run: an add line, a context line, a remove line,
\* a modify line, a line that begins with none of the four markers, a line too
\* long; what the added lines hold is left to the decode
BodyLines == {<<"+">>, <<" ">>, <<"-">>, <<"!">>, <<"?">>, TooLong}

Bodies == SeqsUpTo(BodyLines, MaxLines) \ {<<>>}

HasRemoveOrModify(b) ==
  \E i \in DOMAIN b : HasPrefix(b[i], <<"-">>) \/ HasPrefix(b[i], <<"!">>)

RECURSIVE scanFrom(_, _, _)
scanFrom(b, i, plain) ==
  IF i > Len(b) THEN [err |-> NoErr, plain |-> plain]
  ELSE LET line == b[i]
       IN  IF line = TooLong
           THEN [err |-> "failed to scan hunks", plain |-> <<>>]
           ELSE IF HasPrefix(line, <<"-">>)
           THEN [err |-> "found removed line", plain |-> <<>>]
           ELSE IF HasPrefix(line, <<"!">>)
           THEN [err |-> "found modified line", plain |-> <<>>]
           ELSE IF HasPrefix(line, <<" ">>)
           THEN scanFrom(b, i + 1, plain)
           ELSE IF ~HasPrefix(line, <<"+">>)
           THEN [err |-> "unknown diff op", plain |-> <<>>]
           ELSE scanFrom(b, i + 1, plain \o TrimPrefix(line, <<"+">>) \o <<"\n">>)

RECURSIVE scanDroppingFrom(_, _, _)
scanDroppingFrom(b, i, plain) ==
  IF i > Len(b) THEN [err |-> NoErr, plain |-> plain]
  ELSE LET line == b[i]
       IN  IF line = TooLong
           THEN [err |-> "failed to scan hunks", plain |-> <<>>]
           ELSE IF HasPrefix(line, <<" ">>) \/ HasPrefix(line, <<"-">>)
                   \/ HasPrefix(line, <<"!">>)
           THEN scanDroppingFrom(b, i + 1, plain)
           ELSE IF ~HasPrefix(line, <<"+">>)
           THEN [err |-> "unknown diff op", plain |-> <<>>]
           ELSE scanDroppingFrom(b, i + 1, plain \o TrimPrefix(line, <<"+">>) \o <<"\n">>)

\* a scan that passes over remove and modify lines as it does over context lines
scanLinesDroppingRemoved(b) == scanDroppingFrom(b, 1, <<>>)

\* the scan of one hunk body in processTokenlist: the first error, or the
\* added lines without their marker, each followed by a newline
scanLines(b) == scanFrom(b, 1, <<>>)

\* strip the trailing comma
stripTrailing(plain) == TrimSuffix(Trim(plain, {"\n", " "}), <<",">>)

\* strip the leading },
stripLeading(s) ==
  IF HasPrefix(s, <<"}", ",">>)
  THEN TrimPrefix(s, <<"}", ",">>) \o <<"\n", "}">>
  ELSE s

RECURSIVE appendClosing(_, _)
appendClosing(s, n) == IF n <= 0 THEN s ELSE appendClosing(s \o <<"\n", "}">>, n - 1)

RECURSIVE stripClosing(_, _)
stripClosing(s, n) == IF n <= 0 THEN s ELSE stripClosing(TrimSuffix(s, <<"}">>), n - 1)

\* balance parenthesis
balance(s) ==
  LET delta == Count(s, "{") - Count(s, "}")
  IN  stripClosing(appendClosing(s, delta), 0 - delta)

-----------------------------------------------------------------------------
(* Image references *)

RawPrefix == "https://raw.githubusercontent.com/solana-labs/token-list/main/"

\* a URI is a base and the path below it
LogoURIs ==
  {[base |-> RawPrefix, path |-> AssetPath(a)] : a \in Addrs} \cup
  {[base |-> "https://example.org/", path |-> <<"logo.png">>]}

NoURI == [base |-> "", path |-> <<>>]

\* strings.HasPrefix(uri, prefix + "assets/")
InOwnAssetTree(uri) ==
  uri.base = RawPrefix /\ Len(uri.path) > 1 /\ uri.path[1] = "assets"

\* a check that takes every reference into the own asset tree for a submitted asset
IsSubmittedAssetAnyOwn(uri, file) == InOwnAssetTree(uri)

\* verifyLogoURI up to the HEAD request: the reference is one of the
\* submission's asset paths below the registry's raw prefix
IsSubmittedAsset(uri, file) ==
  InOwnAssetTree(uri) /\ \E i \in DOMAIN file : uri = [base |-> RawPrefix, path |-> file[i]]

\* what a HEAD request can end in
HeadResponses == {"200", "404", "error", "timeout"}

\* what the GET of the shadowban lookup can end in: 200 with a profile that
\* exists and has tweets, 200 with one that does not exist, 200 with one that
\* has no tweets, 200 with a body that does not decode, and the rest
GetResponses == {"200", "200-absent", "200-notweets", "200-undecodable",
                 "404", "error", "timeout"}

-----------------------------------------------------------------------------
(* The state after NewAutomerger, InitRepo and InitTokenlist *)

Baselines == {<<>>, <<T0>>}

InitRun ==
  /\ pc = "loop"
  /\ tl \in Baselines
  /\ knownAddrs = AddrsOf(tl)
  /\ knownSymbols = SymbolsOf(tl)
  /\ knownNames = NamesOf(tl)
  /\ outcome = "None"
  /\ err = NoErr
  /\ assets = <<>>
  /\ removed = FALSE
  /\ added = FALSE
  /\ res = <<>>
  /\ tt = <<>>
  /\ k = 0
  /\ lSymbols = {}
  /\ lAddrs = {}
  /\ lNames = {}
  /\ logoURI = NoURI
  /\ pending = ""
  /\ failed = FALSE
  /\ requested = FALSE
  /\ ai = 0
  /\ oversized = FALSE
  /\ staged = {}
  /\ committed = {}
  /\ pushes = <<>>

Init ==
  /\ InitRun
  /\ hunk = <<>>
  /\ buf = <<>>
  /\ rpc = "off"
  /\ md = <<>>
  /\ tlDiffAt = 0

\* a store that leaves the names out
storeKnownTokensNoNames(s) ==
  /\ knownAddrs' = knownAddrs \cup AddrsOf(s)
  /\ knownSymbols' = knownSymbols \cup SymbolsOf(s)
  /\ knownNames' = knownNames

\* m.storeKnownToken for every Record of s
storeKnownTokens(s) ==
  /\ knownAddrs' = knownAddrs \cup AddrsOf(s)
  /\ knownSymbols' = knownSymbols \cup SymbolsOf(s)
  /\ knownNames' = knownNames \cup NamesOf(s)

\* Automerger.IsKnownToken: the error for a Record one of whose identifiers is
\* in the global sets
IsKnownToken(t) ==
  IF t.Address \in knownAddrs THEN "token address is already used"
  ELSE IF t.Symbol \in knownSymbols THEN "token symbol is already used"
  ELSE IF t.Name \in knownNames THEN "token name is already used"
  ELSE NoErr

registry == <<tl, knownAddrs, knownSymbols, knownNames>>

\* what is recorded about the submission under review
record == <<removed, requested, failed>>

\* the locals of processTokenlist and commitTokenDiff go out of scope
DropLocals ==
  /\ assets' = <<>>
  /\ added' = FALSE
  /\ res' = <<>>
  /\ tt' = <<>>
  /\ k' = 0
  /\ lSymbols' = {}
  /\ lAddrs' = {}
  /\ lNames' = {}
  /\ logoURI' = NoURI
  /\ pending' = ""
  /\ ai' = 0
  /\ oversized' = FALSE

\* ProcessPR: a step returned e; reportError, the warning, return nil
Rejected(e) ==
  /\ pc' = "loop"
  /\ outcome' = "Rejected"
  /\ err' = e
  /\ DropLocals
  /\ UNCHANGED <<registry, staged, committed, pushes>>

Reject(e) == Rejected(e) /\ UNCHANGED record

\* the Record the loop over tt is at
Cur == tt[k]

\* the address segments of the asset paths (strings.Split(a, "/")[2])
assetAddrs == [i \in DOMAIN assets |-> assets[i][3]]

-----------------------------------------------------------------------------
(* main: the loop over the open pull requests *)

\* ProcessPR up to the call of processTokenlist: the diff is fetched and parsed
\* (an error of either is returned to main, which exits), then parseDiff
ProcessPR ==
  /\ UNCHANGED aside
  /\ pc = "loop"
  /\ Len(tl) < MaxRegistry
  /\ removed' = FALSE
  /\ requested' = FALSE
  /\ failed' = FALSE
  /\ committed' = {}
  /\ UNCHANGED <<registry, staged, pushes>>
  /\ \E fetched \in {"ok", "failed to get diff", "failed to parse diff"} :
       IF fetched # "ok"
       THEN /\ pc' = "exited"
            /\ outcome' = "Failed"
            /\ err' = fetched
            /\ DropLocals
       ELSE \E files \in MultiFileDiffs :
              LET r == parseDiff(files)
              IN  IF r.err # NoErr
                  THEN /\ pc' = "loop"
                       /\ outcome' = "Rejected"
                       /\ err' = r.err
                       /\ DropLocals
                  ELSE /\ pc' = "hunks"
                       /\ outcome' = "Processing"
                       /\ err' = NoErr
                       /\ assets' = r.assets
                       /\ UNCHANGED <<added, res, tt, k, lSymbols, lAddrs, lNames,
                                      logoURI, pending, ai, oversized>>

-----------------------------------------------------------------------------
(* processTokenlist *)

\* the loop over d.Hunks reaches another hunk: its lines are scanned
ScanHunk ==
  /\ UNCHANGED aside
  /\ pc = "hunks"
  /\ Len(res) < MaxRecs
  /\ \E b \in Bodies :
       /\ removed' = (removed \/ HasRemoveOrModify(b))
       /\ UNCHANGED <<requested, failed>>
       /\ IF scanLines(b).err # NoErr
          THEN Rejected(scanLines(b).err)
          ELSE /\ pc' = "decode"
               /\ added' = (scanLines(b).plain # <<>>)
               /\ UNCHANGED <<registry, outcome, err, assets, oversized, res, tt, k, lSymbols,
                              lAddrs, lNames, logoURI, pending, ai, staged, committed,
                              pushes>>

\* the added lines are repaired, normalised by hujson and decoded into tt;
\* a buffer without added lines is empty and does not parse
DecodeHunk ==
  /\ UNCHANGED aside
  /\ pc = "decode"
  /\ \/ \E e \in {"failed to normalize JSON", "failed to parse JSON"} : Reject(e)
     \/ /\ added
        /\ \E recs \in SeqsUpTo(Tokens, MaxRecs - Len(res)) \ {<<>>} :
             /\ tt' = recs
             /\ k' = 1
             /\ lSymbols' = {}
             /\ lAddrs' = {}
             /\ lNames' = {}
             /\ pc' = "token"
             /\ added' = FALSE
             /\ UNCHANGED <<registry, record, outcome, err, assets, oversized, res, logoURI,
                            pending, ai, staged, committed, pushes>>

\* the duplicate check of one Record against the per-hunk maps
checkLocal(t) ==
  IF t.Symbol \in lSymbols THEN "duplicate symbol within PR"
  ELSE IF t.Address \in lAddrs THEN "duplicate address within PR"
  ELSE IF t.Name \in lNames THEN "duplicate name within PR"
  ELSE NoErr

\* one Record of tt: the per-hunk duplicate check, the schema, the name
CheckToken ==
  /\ UNCHANGED aside
  /\ pc = "token"
  /\ k <= Len(tt)
  /\ IF checkLocal(Cur) # NoErr
     THEN Reject(checkLocal(Cur))
     ELSE \E schema \in {"ok", "error encoding to Cue", "error validating schema"} :
            IF schema # "ok"
            THEN Reject(schema)
            ELSE IF Trim(Cur.Name, {" "}) = <<>>
            THEN Reject("empty token name")
            ELSE /\ lSymbols' = lSymbols \cup {Cur.Symbol}
                 /\ lAddrs' = lAddrs \cup {Cur.Address}
                 /\ lNames' = lNames \cup {Cur.Name}
                 /\ logoURI' \in LogoURIs
                 /\ pc' = "logo"
                 /\ UNCHANGED <<registry, record, outcome, err, assets, oversized, added, res, tt,
                                k, pending, ai, staged, committed, pushes>>

\* a request is issued and the caller waits for its answer
Issue(check) ==
  /\ pc' = "await"
  /\ pending' = check
  /\ requested' = TRUE
  /\ UNCHANGED <<registry, removed, failed, outcome, err, assets, oversized, added, res, tt, k,
                 lSymbols, lAddrs, lNames, logoURI, ai, staged, committed, pushes>>

\* the next check of the same Record
Goto(next) ==
  /\ pc' = next
  /\ logoURI' = NoURI
  /\ pending' = ""
  /\ UNCHANGED <<registry, outcome, err, assets, oversized, added, res, tt, k, lSymbols, lAddrs,
                 lNames, ai, staged, committed, pushes>>

\* the Record is verified: the loop over tt goes on
NextToken ==
  /\ pc' = "token"
  /\ k' = k + 1
  /\ logoURI' = NoURI
  /\ pending' = ""
  /\ UNCHANGED <<registry, outcome, err, assets, oversized, added, res, tt, lSymbols, lAddrs,
                 lNames, ai, staged, committed, pushes>>

\* verifyLogoURI: a submitted asset passes at once, anything else is requested
verifyLogoURI ==
  /\ UNCHANGED aside
  /\ pc = "logo"
  /\ IF IsSubmittedAsset(logoURI, assets)
     THEN Goto("coingeckoId") /\ UNCHANGED record
     ELSE Issue("logo")

\* the coingeckoId extension, when the Record has one
verifyCoingeckoId ==
  /\ UNCHANGED aside
  /\ pc = "coingeckoId"
  /\ \E present \in BOOLEAN :
       IF present THEN Issue("coingeckoId") ELSE Goto("website") /\ UNCHANGED record

\* the website extension, when the Record has one
verifyWebsite ==
  /\ UNCHANGED aside
  /\ pc = "website"
  /\ \E present \in BOOLEAN :
       IF present THEN Issue("website") ELSE Goto("twitter") /\ UNCHANGED record

\* the twitter extension, when the Record has one: the pattern, then the lookup
verifyTwitterHandle ==
  /\ UNCHANGED aside
  /\ pc = "twitter"
  /\ \E handle \in {"absent", "malformed", "wellformed"} :
       CASE handle = "absent" -> NextToken /\ UNCHANGED record
         [] handle = "malformed" -> Reject("failed to verify Twitter handle")
         [] OTHER -> Issue("twitter")

\* what the request of a check can be answered
answers(check) == IF check = "twitter" THEN GetResponses ELSE HeadResponses

\* a check of the answer that looks at the status code only
checkResponseStatusOnly(check, r) ==
  IF r \in {"200", "200-absent", "200-notweets", "200-undecodable"} THEN NoErr
  ELSE CASE check = "logo" -> "failed verifying image URI"
         [] check = "coingeckoId" -> "failed to verify coingecko ID"
         [] check = "website" -> "failed to verify website"
         [] OTHER -> "failed to verify Twitter handle"

\* the error of the check whose request was answered by r, or none
checkResponse(check, r) ==
  IF r = "200" THEN NoErr
  ELSE CASE check = "logo" -> "failed verifying image URI"
         [] check = "coingeckoId" -> "failed to verify coingecko ID"
         [] check = "website" -> "failed to verify website"
         [] OTHER -> "failed to verify Twitter handle"

\* the request returns (tryHEADRequest, verifyCoingeckoId, verifyTwitterHandle
\* after ctxhttp.Head / ctxhttp.Get)
RequestReturns ==
  /\ UNCHANGED aside
  /\ pc = "await"
  /\ \E r \in answers(pending) :
       /\ failed' = (failed \/ r # "200")
       /\ UNCHANGED <<removed, requested>>
       /\ IF checkResponse(pending, r) # NoErr
          THEN Rejected(checkResponse(pending, r))
          ELSE CASE pending = "logo" -> Goto("coingeckoId")
                 [] pending = "coingeckoId" -> Goto("website")
                 [] pending = "website" -> Goto("twitter")
                 [] OTHER -> NextToken

\* the asset whose address is that of no Record of tt, if there is one
orphanCheck(addrs, recs) ==
  IF \E i \in DOMAIN addrs : addrs[i] \notin AddrsOf(recs)
  THEN "asset file for unknown token found"
  ELSE NoErr

\* after the Records of the hunk: every asset address is looked up in tt, and
\* tt is appended to res
FinishHunk ==
  /\ UNCHANGED aside
  /\ pc = "token"
  /\ k > Len(tt)
  /\ IF orphanCheck(assetAddrs, tt) # NoErr
     THEN Reject(orphanCheck(assetAddrs, tt))
     ELSE /\ res' = res \o tt
          /\ tt' = <<>>
          /\ k' = 0
          /\ lSymbols' = {}
          /\ lAddrs' = {}
          /\ lNames' = {}
          /\ pc' = "hunks"
          /\ UNCHANGED <<registry, record, outcome, err, assets, oversized, added, logoURI,
                         pending, ai, staged, committed, pushes>>

\* there is no further hunk: processTokenlist returns res, ProcessPR calls
\* commitTokenDiff
ReturnRes ==
  /\ UNCHANGED aside
  /\ pc = "hunks"
  /\ pc' = "commit"
  /\ ai' = 1
  /\ UNCHANGED <<registry, record, outcome, err, assets, oversized, added, res, tt, k, lSymbols,
                 lAddrs, lNames, logoURI, pending, staged, committed, pushes>>

-----------------------------------------------------------------------------
(* commitTokenDiff *)

\* the process dies of a nil dereference
Panic ==
  /\ pc' = "panicked"
  /\ outcome' = "Crashed"
  /\ UNCHANGED <<registry, record, err, assets, oversized, added, res, tt, k, lSymbols, lAddrs,
                 lNames, logoURI, pending, ai, staged, committed, pushes>>

\* 200*1024, the limit of the declared length of an asset, in bytes
MaxAssetSize == 204800

\* the sizes of the bodies of the assets of a run
BodySizes == {1024, MaxAssetSize, MaxAssetSize + 1}

\* type http.Response, as far as commitTokenDiff reads it: ContentLength is -1
\* when the server declares no length, and the transport cuts a body off at the
\* declared length
AssetResponses ==
  {r \in [ContentLength : {-1} \cup BodySizes, Body : BodySizes] :
     r.ContentLength = -1 \/ r.ContentLength = r.Body}

\* the check of the size of an asset
tooLarge(resp) == resp.ContentLength > MaxAssetSize

\* the loop over the assets reaches another asset: http.Get is called, with
\* http.DefaultClient, which has no timeout
GetAsset ==
  /\ UNCHANGED aside
  /\ pc = "commit"
  /\ ai <= Len(assets)
  /\ pc' = "fetch"
  /\ UNCHANGED <<registry, record, outcome, err, assets, oversized, added, res, tt, k,
                 lSymbols, lAddrs, lNames, logoURI, pending, ai, staged, committed,
                 pushes>>

\* http.Get returns: without a response (resp is nil and resp.Body is
\* dereferenced), with a response and an error, or with a response, which is
\* checked for its declared length, written to the worktree and added
CommitAsset ==
  /\ UNCHANGED aside
  /\ pc = "fetch"
  /\ \/ Panic
     \/ Reject("failed to get asset")
     \/ \E resp \in AssetResponses :
          IF tooLarge(resp)
          THEN Reject("asset too large")
          ELSE \E wrote \in {"ok", "failed to create asset directory",
                             "failed to create asset file", "failed to write asset file"} :
                 IF wrote # "ok"
                 THEN Reject(wrote)
                 ELSE /\ staged' = staged \cup {assets[ai]}
                      /\ oversized' = (oversized \/ resp.Body > MaxAssetSize)
                      /\ ai' = ai + 1
                      /\ pc' = "commit"
                      /\ UNCHANGED <<registry, record, outcome, err, assets, added, res,
                                     tt, k, lSymbols, lAddrs, lNames, logoURI, pending,
                                     committed, pushes>>

\* an append that puts the new Records in front of the old ones
appendTokensInFront(tokens, recs) == recs \o tokens

\* the Records the snapshot holds after recs is appended
appendTokens(tokens, recs) == tokens \o recs

\* a commit step that replaces the snapshot and the known sets before the commit
\* is made, so that a failed commit leaves them replaced
CommitTokenlistStoringFirst ==
  /\ UNCHANGED aside
  /\ pc = "commit"
  /\ ai > Len(assets)
  /\ \E got \in {"ok", "failed to create tokenlist file", "failed to write tokenlist file",
                 "failed to add tokenlist file", "failed to get user", "failed to commit"} :
       IF got \notin {"ok", "failed to commit"}
       THEN Reject(got)
       ELSE /\ tl' = appendTokens(tl, res)
            /\ storeKnownTokens(res)
            /\ committed' = IF got = "ok" THEN staged ELSE committed
            /\ staged' = IF got = "ok" THEN {} ELSE staged
            /\ pc' = "loop"
            /\ outcome' = IF got = "ok" THEN "Accepted" ELSE "Rejected"
            /\ err' = IF got = "ok" THEN NoErr ELSE got
            /\ DropLocals
            /\ UNCHANGED <<record, pushes>>

\* after the assets: the registry file is written and added, the commit is made,
\* and only then the snapshot and the known sets are replaced
CommitTokenlist ==
  /\ UNCHANGED aside
  /\ pc = "commit"
  /\ ai > Len(assets)
  /\ \E got \in {"ok", "failed to create tokenlist file", "failed to write tokenlist file",
                 "failed to add tokenlist file", "failed to get user", "failed to commit"} :
       IF got # "ok"
       THEN Reject(got)
       ELSE /\ tl' = appendTokens(tl, res)
            /\ storeKnownTokens(res)
            /\ committed' = staged
            /\ staged' = {}
            /\ pc' = "loop"
            /\ outcome' = "Accepted"
            /\ err' = NoErr
            /\ DropLocals
            /\ UNCHANGED <<record, pushes>>

-----------------------------------------------------------------------------
(* Push *)

\* a refusal that knows one of the two names only
refusePushMainOnly(remoteHead, force) ==
  IF force /\ remoteHead = "main"
  THEN "refusing to force push to main branch"
  ELSE NoErr

\* Automerger.Push before the push itself: a forced push to main or master is refused
refusePush(remoteHead, force) ==
  IF force /\ remoteHead \in {"main", "master"}
  THEN "refusing to force push to main branch"
  ELSE NoErr

\* main after the loop: the one push, to automerge-pending, forced
Push ==
  /\ UNCHANGED aside
  /\ pc = "loop"
  /\ \E got \in {"ok", "failed to get HEAD", "failed to push"} :
       IF refusePush("automerge-pending", TRUE) = NoErr /\ got = "ok"
       THEN pc' = "done" /\ pushes' = Append(pushes, "automerge-pending")
       ELSE pc' = "exited" /\ pushes' = pushes
  /\ UNCHANGED <<registry, record, outcome, err, assets, oversized, added, res, tt, k, lSymbols,
                 lAddrs, lNames, logoURI, pending, ai, staged, committed>>

Next ==
  \/ ProcessPR
  \/ ScanHunk
  \/ DecodeHunk
  \/ CheckToken
  \/ verifyLogoURI
  \/ verifyCoingeckoId
  \/ verifyWebsite
  \/ verifyTwitterHandle
  \/ RequestReturns
  \/ FinishHunk
  \/ ReturnRes
  \/ GetAsset
  \/ CommitAsset
  \/ CommitTokenlist
  \/ Push

Spec == Init /\ [][Next]_vars

-----------------------------------------------------------------------------
(* Properties of the run *)

\* the Records the submission under review was decoded to, once
\* processTokenlist has returned them
Returned == pc = "commit"

(* C1: a submission one of whose Records has an address, a symbol or a name  *)
(* that is in the global known sets is rejected: processTokenlist never      *)
(* returns such a Record to be committed.                                    *)
C1_KnownRecordRejected ==
  Returned => \A i \in DOMAIN res : IsKnownToken(res[i]) = NoErr

(* C2: from a baseline without duplicates, the registry snapshot never holds *)
(* two Records that share an address, a symbol or a name.                    *)
C2_RegistryUnique == ~HasDuplicate(tl)

(* C3: a submission two of whose Records share a symbol, an address or a     *)
(* name is rejected, in whichever hunks the two Records are: the Records     *)
(* processTokenlist returns are free of duplicates.                          *)
C3_SubmissionUnique == Returned => ~HasDuplicate(res)

(* C4: the snapshot and the three known sets change only in the step that    *)
(* ends a submission Accepted; a submission that ends Rejected, at whatever  *)
(* step, leaves them as they were.                                           *)
C4_OnlyAcceptedChangesRegistry ==
  [][(pc = "commit" /\ outcome' = "Accepted")
       \/ (tl' = tl /\ knownAddrs' = knownAddrs /\ knownSymbols' = knownSymbols
             /\ knownNames' = knownNames)]_vars

\* a submission was rejected by a failed commit, after an asset of it was written
C4_Witness ==
  outcome = "Rejected" /\ err = "failed to commit" /\ staged # {} /\ tl # <<>>

(* C5: between two submissions the known sets are exactly the addresses, the *)
(* symbols and the names of the Records of the snapshot.                     *)
C5_KnownSetsAreSnapshot ==
  pc = "loop" =>
    /\ knownAddrs = {tl[i].Address : i \in DOMAIN tl}
    /\ knownSymbols = {tl[i].Symbol : i \in DOMAIN tl}
    /\ knownNames = {tl[i].Name : i \in DOMAIN tl}

\* a submission of two Records was accepted on top of a baseline
C5_Witness == pc = "loop" /\ outcome = "Accepted" /\ Len(tl) > 2

(* C6: a submission one of whose hunks holds a remove or a modify line is    *)
(* rejected as a whole: no Records are kept, those of earlier hunks          *)
(* included, and no commit is made for it.                                   *)
C6_RemovedLineRejects ==
  removed =>
    /\ outcome = "Rejected"
    /\ res = <<>> /\ tt = <<>>
    /\ committed = {}

\* the remove line came after a hunk whose Records had been verified
C6_Witness == removed /\ requested /\ err = "found removed line"

(* C8: a submission rejected for a duplicate among its own Records is        *)
(* rejected before any network request has been issued for it.               *)
C8_DuplicateBeforeRequests ==
  (outcome = "Rejected"
     /\ err \in {"duplicate symbol within PR", "duplicate address within PR",
                 "duplicate name within PR"})
    => ~requested

(* C9: in a submission whose Records are returned to be committed, every     *)
(* added asset has the address of exactly one Record of the submission,      *)
(* whatever the number of hunks.                                             *)
C9_AssetHasOneRecord ==
  Returned =>
    \A i \in DOMAIN assets :
      Cardinality({j \in DOMAIN res : res[j].Address = assets[i][3]}) = 1

\* the image reference of the Record under verification is one of the asset
\* paths of the submission, below the registry's raw prefix
LogoIsSubmitted ==
  logoURI.base = RawPrefix /\ \E i \in DOMAIN assets : logoURI.path = assets[i]

(* C10, as claimed: no request is ever issued for an image reference into    *)
(* the registry's own asset tree (it passes if it is a submitted asset path, *)
(* and the submission is rejected if it is not).                             *)
C10_OwnTreeNeverRequested ==
  ~(pc = "await" /\ pending = "logo" /\ InOwnAssetTree(logoURI))

(* C10, amended: an image reference into the own asset tree that is one of   *)
(* the submitted asset paths passes without a request; one that is none of   *)
(* them is requested like any other reference and passes exactly when the    *)
(* answer is 200, the submission being rejected otherwise.                   *)
C10_OwnTreeLogo ==
  [][/\ (pc = "logo" /\ InOwnAssetTree(logoURI)) =>
          IF LogoIsSubmitted
          THEN pc' = "coingeckoId" /\ requested' = requested
          ELSE pc' = "await" /\ pending' = "logo" /\ requested' /\ logoURI' = logoURI
     /\ (pc = "await" /\ pending = "logo") =>
          \/ pc' = "coingeckoId" /\ ~failed'
          \/ pc' = "loop" /\ outcome' = "Rejected" /\ failed'
                /\ err' = "failed verifying image URI"]_vars

\* the first Record of a hunk passed the image check on a submitted asset path,
\* no request having been issued
C10_Witness == pc = "coingeckoId" /\ k = 1 /\ ~requested /\ assets # <<>>

\* the errors of the verification checks of a Record
VerificationErrors ==
  {"failed verifying image URI", "failed to verify coingecko ID",
   "failed to verify website", "failed to verify Twitter handle"}

(* C11: a submission one of whose verification requests was answered         *)
(* otherwise than with success (a non-200 status, a request error, a         *)
(* timeout, a profile that does not exist, has no tweets or does not decode) *)
(* is rejected with the error of that check and nothing is committed for it; *)
(* a submission that is Accepted had every request answered with success.    *)
C11_FailedCheckRejects ==
  /\ failed =>
       /\ outcome = "Rejected"
       /\ err \in VerificationErrors
       /\ res = <<>> /\ tt = <<>>
       /\ committed = {}
  /\ outcome = "Accepted" => ~failed

\* the lookup of the social handle, the last check of a Record, failed
C11_Witness ==
  failed /\ outcome = "Rejected" /\ err = "failed to verify Twitter handle"

(* C12: a network operation that fails with a transport error or a timeout,  *)
(* in a verification check or in the asset fetch of commitTokenDiff, never   *)
(* brings the process to a crashed (panicked) state.                         *)
C12_NeverCrashes == pc # "panicked" /\ outcome # "Crashed"

(* C13: no failure of one submission, an unparseable multi-file diff         *)
(* included, ends the run: the run never exits on a submission that failed.  *)
C13_FailureIsLocal == ~(pc = "exited" /\ outcome = "Failed")

(* C15: when a submission is Accepted, the new snapshot is the old snapshot  *)
(* followed by all the Records decoded from all the hunks of the submission, *)
(* in hunk order and in-hunk order; the snapshot changes in no other way,    *)
(* and the Records of a hunk are kept whole, behind those of earlier hunks.  *)
C15_AcceptedAppendsAll ==
  [][/\ (pc = "commit" /\ outcome' = "Accepted") => tl' = tl \o res
     /\ tl' # tl => (pc = "commit" /\ outcome' = "Accepted")
     /\ res' # res => (res' = <<>> \/ (pc = "token" /\ k > Len(tt) /\ res' = res \o tt))]_vars

\* two Records were accepted on top of a baseline of one
C15_Witness ==
  outcome = "Accepted" /\ Len(tl) = 3 /\ tl[1] = T0 /\ tl[2] # tl[3] /\ tl[2] # T0

\* the steps of a submission that the program takes by itself, or whose wait
\* a timeout of 5 seconds bounds (ctxhttp with context.WithTimeout in
\* tryHEADRequest, verifyCoingeckoId and verifyTwitterHandle); the return of
\* http.Get in commitTokenDiff is not among them, no timeout bounding it
Progress ==
  \/ ScanHunk \/ DecodeHunk \/ CheckToken
  \/ verifyLogoURI \/ verifyCoingeckoId \/ verifyWebsite \/ verifyTwitterHandle
  \/ RequestReturns
  \/ FinishHunk \/ ReturnRes
  \/ GetAsset \/ CommitTokenlist

SpecFair == Spec /\ WF_vars(Progress)

(* C16: no submission blocks the run forever, also when a remote server      *)
(* never answers: a submission under review eventually is under review no    *)
(* longer (it ended Accepted or Rejected, or the process ended with it).     *)
C16_EverySubmissionEnds ==
  (outcome = "Processing") ~> (outcome # "Processing")

(* C17: no asset whose body is larger than 200 KiB is written to the         *)
(* working tree, whatever length the response declares.                      *)
C17_NoOversizedAssetWritten == ~oversized

(* C18: the commit made for an accepted submission holds no asset other than *)
(* those of the submission itself: what an earlier, rejected submission      *)
(* wrote and staged before it failed is not part of it.                      *)
C18_CommitHoldsOwnAssetsOnly ==
  [][(pc = "commit" /\ outcome' = "Accepted") =>
       committed' \subseteq {assets[i] : i \in DOMAIN assets}]_vars

\* names of remote heads Push can be called with
RemoteHeads == {"main", "master", "automerge-pending", "Main", "maintenance"}

(* C20: Push, called with force and the remote head main or master, returns  *)
(* an error before it pushes; the run pushes to automerge-pending only, at   *)
(* most once, after the last submission it processes, and ends with it.      *)
C20_NoForcePushToMain ==
  [][/\ \A h \in RemoteHeads :
          h \in {"main", "master"} => refusePush(h, TRUE) # NoErr
     /\ pushes' # pushes =>
          /\ pc = "loop" /\ pc' = "done"
          /\ pushes = <<>> /\ pushes' = <<"automerge-pending">>
          /\ refusePush(pushes'[1], TRUE) = NoErr
     /\ pc = "done" => pc' = "done"]_vars

\* the run pushed after it had accepted a submission
C20_Witness ==
  pc = "done" /\ pushes = <<"automerge-pending">> /\ outcome = "Accepted" /\ tl # <<>>

-----------------------------------------------------------------------------
(* The reconstruction of the text of one hunk (processTokenlist, from the    *)
(* scan to the balancing), on bodies written out character by character      *)

MaxLineLen == 2    \* characters of one added line

\* what an added line is made of
Chars == {"{", "}", ","}

ReconLines ==
  {<<" ">>, <<"-">>} \cup {<<"+">> \o t : t \in SeqsUpTo(Chars, MaxLineLen)}

InitRecon ==
  /\ InitRun
  /\ tl = <<>>
  /\ hunk \in SeqsUpTo(ReconLines, MaxLines) \ {<<>>}
  /\ buf = <<>>
  /\ rpc = "scan"
  /\ md = <<>>
  /\ tlDiffAt = 0

\* the added lines are collected in plain
ReconScan ==
  /\ rpc = "scan"
  /\ IF scanLines(hunk).err # NoErr
     THEN rpc' = "rejected" /\ buf' = <<>>
     ELSE rpc' = "strip" /\ buf' = scanLines(hunk).plain
  /\ UNCHANGED <<run, hunk, diffs>>

ReconStrip ==
  /\ rpc = "strip"
  /\ buf' = stripTrailing(buf)
  /\ rpc' = "leading"
  /\ UNCHANGED <<run, hunk, diffs>>

ReconLeading ==
  /\ rpc = "leading"
  /\ buf' = stripLeading(buf)
  /\ rpc' = "balance"
  /\ UNCHANGED <<run, hunk, diffs>>

ReconBalance ==
  /\ rpc = "balance"
  /\ buf' = balance(buf)
  /\ rpc' = "balanced"
  /\ UNCHANGED <<run, hunk, diffs>>

NextRecon ==
  \/ ReconScan
  \/ ReconStrip
  \/ ReconLeading
  \/ ReconBalance

SpecRecon == InitRecon /\ [][NextRecon]_vars

\* the lines of the hunk are add and context lines only
OnlyAddAndContext(b) ==
  \A i \in DOMAIN b : HasPrefix(b[i], <<"+">>) \/ HasPrefix(b[i], <<" ">>)

(* C7: for a hunk of add and context lines only, the buffer holds as many '{' *)
(* as '}' once the braces have been balanced.                                 *)
C7_BracesBalanced ==
  (rpc = "balanced" /\ OnlyAddAndContext(hunk)) => Count(buf, "{") = Count(buf, "}")

-----------------------------------------------------------------------------
(* parseDiff on its own, on the files of one multi-file diff *)

MaxDiffFiles == 3  \* files of one multi-file diff

\* a file that is new in the diff, and one that is modified by it
NewFile(path) == [NewName |-> <<"b">> \o path, OrigName |-> DevNull]
ModifiedFile(path) == [NewName |-> <<"b">> \o path, OrigName |-> <<"a">> \o path]

\* the files of the diffs: the registry file, new and modified; assets with a
\* good path; assets with a bad extension, network or depth; a modified asset;
\* a file that is neither; a deleted file
DiffFiles ==
  {NewFile(tokenlistPath), ModifiedFile(tokenlistPath),
   NewFile(AssetPath("A1")), NewFile(<<"assets", "mainnet", "A2", "logo.svg">>),
   NewFile(<<"assets", "mainnet", "A1", "logo.gif">>),
   NewFile(<<"assets", "testnet", "A1", "logo.png">>),
   NewFile(<<"assets", "mainnet", "logo.png">>),
   NewFile(<<"assets", "mainnet", "A1", "x", "logo.png">>),
   ModifiedFile(AssetPath("A1")),
   NewFile(<<"README.md">>),
   [NewName |-> DevNull, OrigName |-> <<"a">> \o AssetPath("A2")]}

InitDiff ==
  /\ InitRun
  /\ tl = <<>>
  /\ hunk = <<>>
  /\ buf = <<>>
  /\ rpc = "off"
  /\ md \in SeqsUpTo(DiffFiles, MaxDiffFiles)
  /\ tlDiffAt = 0

\* m.parseDiff(md), as ProcessPR calls it
ParseDiff ==
  /\ pc = "loop"
  /\ pc' = "parsed"
  /\ err' = parseDiff(md).err
  /\ assets' = parseDiff(md).assets
  /\ tlDiffAt' = parseDiff(md).tlDiff
  /\ UNCHANGED <<registry, record, outcome, added, res, tt, k, lSymbols, lAddrs, lNames,
                 logoURI, pending, ai, oversized, staged, committed, pushes, recon, md>>

NextDiff == ParseDiff

SpecDiff == InitDiff /\ [][NextDiff]_vars

\* the file is the registry file
IsRegistryFile(z) == TrimPrefixB(z.NewName) = tokenlistPath

\* the file is a newly-added asset: old side absent, four segments below
\* assets, the second of them mainnet, extension png, jpg or svg
IsNewAsset(z) ==
  LET path == TrimPrefixB(z.NewName)
  IN  /\ z.OrigName = DevNull
      /\ Len(path) = 4
      /\ path[1] = "assets" /\ path[2] = "mainnet"
      /\ \E name \in {"logo.png", "logo.jpg", "logo.svg"} : path[4] = name

(* C14: parseDiff accepts a diff exactly when every file of it is the        *)
(* registry file or a newly-added asset and the registry file is in it       *)
(* exactly once; it then returns the asset paths in diff order and that one  *)
(* registry-file diff.                                                       *)
C14_ParseDiffAccepts ==
  pc = "parsed" =>
    /\ err = NoErr <=>
         /\ \A i \in DOMAIN md : IsRegistryFile(md[i]) \/ IsNewAsset(md[i])
         /\ Cardinality({i \in DOMAIN md : IsRegistryFile(md[i])}) = 1
    /\ err = NoErr =>
         /\ tlDiffAt \in DOMAIN md /\ IsRegistryFile(md[tlDiffAt])
         /\ LET new == SelectSeq(md, IsNewAsset)
            IN  assets = [i \in DOMAIN new |-> TrimPrefixB(new[i].NewName)]
    /\ err # NoErr => assets = <<>> /\ tlDiffAt = 0

\* a diff of two assets and the registry file between them was accepted
C14_Witness ==
  pc = "parsed" /\ err = NoErr /\ Len(assets) = 2 /\ tlDiffAt = 2 /\ assets[1] # assets[2]

-----------------------------------------------------------------------------
(* The checks of one Record before its verification (processTokenlist), on   *)
(* names written out character by character                                  *)

MaxNameLen == 3    \* characters of one name

\* what a name is made of: a space, a tab, a letter
NameChars == {" ", "\t", "a"}

\* Records with such names
NamedTokens ==
  [Address : Addrs, Symbol : Syms, Name : SeqsUpTo(NameChars, MaxNameLen)]

\* the loop over tt is at the one Record decoded from the one hunk
InitName ==
  /\ InitRun
  /\ tl = <<>>
  /\ hunk = <<>>
  /\ buf = <<>>
  /\ rpc = "off"
  /\ md = <<>>
  /\ tlDiffAt = 0

NameToken ==
  /\ pc = "loop"
  /\ outcome = "None"
  /\ \E t \in NamedTokens :
       /\ tt' = <<t>>
       /\ k' = 1
  /\ pc' = "token"
  /\ outcome' = "Processing"
  /\ UNCHANGED <<registry, record, err, assets, oversized, added, res, lSymbols,
                 lAddrs, lNames, logoURI, pending, ai, staged, committed, pushes, aside>>

NextName ==
  \/ NameToken
  \/ CheckToken

SpecName == InitName /\ [][NextName]_vars

\* the characters unicode.IsSpace holds for, among those of the names
Whitespace == {" ", "\t"}

(* C19: a Record whose name is empty after trimming whitespace (a name made  *)
(* only of spaces, tabs or other whitespace) does not pass the name check.   *)
C19_BlankNameRejected ==
  pc = "logo" => \E i \in DOMAIN Cur.Name : Cur.Name[i] \notin Whitespace

====
